---- MODULE Spec2Model ----
(***************************************************************************)
(* Model of the Incus docker-machine driver (pkg/drivers/incus/incus.go).  *)
(* One Driver object is driven serially by the host tool.  Every remote    *)
(* call's outcome is an input of the operation that makes the call.        *)
(***************************************************************************)
EXTENDS Integers, Sequences, FiniteSets, TLC

(* ------------------------------ bounds --------------------------------- *)
\* number of network interfaces an instance-state response may report
MaxIfaces == 2

(* ------------------------- program constants --------------------------- *)
defaultCpus == 1
defaultMemory == 1024
defaultDiskSize == 10240
defaultProject == "default"
defaultProfile == "default"
defaultNetwork == "incusbr0"
defaultStorage == "local"
defaultSSHUser == "root"
defaultSSHPort == 22
imageServer == "https://images.linuxcontainers.org"
cloudInitNetworkConfigOVN == "#cloud-config network: enp5s0 mtu: 1442, eth0 mtu: 1442"
maxRetries == 100

(* --------------------------- Go values --------------------------------- *)
\* a nil pointer / nil map / nil interface, and a set one
Nil == <<>>
Some(x) == <<x>>
Val(p) == p[1]

\* m[k] = v on a Go map
MapPut(m, k, v) == [x \in (DOMAIN m) \cup {k} |-> IF x = k THEN v ELSE m[x]]

Digit(d) == CASE d = 0 -> "0" [] d = 1 -> "1" [] d = 2 -> "2" [] d = 3 -> "3"
              [] d = 4 -> "4" [] d = 5 -> "5" [] d = 6 -> "6" [] d = 7 -> "7"
              [] d = 8 -> "8" [] d = 9 -> "9"

RECURSIVE Itoa(_)
\* fmt.Sprintf("%d", n)
Itoa(n) == IF n < 0 THEN "-" \o Itoa(-n)
           ELSE IF n < 10 THEN Digit(n)
           ELSE Itoa(n \div 10) \o Digit(n % 10)

\* the text of an error returned by the remote server
RemoteErr == "remote error"

\* fmt.Sprintf(cloudInitVendorData, key)
VendorData(key) == "#cloud-config ssh_authorized_keys: - " \o key

\* d.MachineName, set by NewDriver
MachineName == "machine"

(* ----------------------- the remote call log --------------------------- *)
\* A remote call: its name, its first argument, the action and force of the
\* state it puts, whether it succeeded, and what the server replied (the
\* type of a network, the status of an instance).
\* a call that succeeded, a call that failed, an UpdateInstanceState call,
\* a query that succeeded with a reply
Call(c, a) ==
    [call |-> c, arg |-> a, action |-> "", force |-> FALSE, ok |-> TRUE, reply |-> ""]
Failed(c, a) ==
    [call |-> c, arg |-> a, action |-> "", force |-> FALSE, ok |-> FALSE, reply |-> ""]
CallForce(c, a, f, ok) ==
    [call |-> c, arg |-> MachineName, action |-> a, force |-> f, ok |-> ok, reply |-> ""]
Replied(c, a, r) ==
    [call |-> c, arg |-> a, action |-> "", force |-> FALSE, ok |-> TRUE, reply |-> r]
CallNames(cs) == {cs[i].call : i \in DOMAIN cs}

(* --------------------------- inputs ------------------------------------ *)
\* the first remote call of an operation that fails, "none" when all succeed
ClientFaults == {"none", "connect", "project"}
OpFaults == ClientFaults \cup {"submit", "wait"}
PreFaults == ClientFaults \cup {"profile", "network", "storage"}
NetworkTypes == {"bridge", "ovn", "macvlan", "physical"}
Images == {"", "debian/12"}
Networks == {"", defaultNetwork}
\* the names a network may be given when the claims are about its name
NetworkNames == Networks \cup {"uplink"}
Storages == {"", defaultStorage}
PubKey == "ssh-rsa AAAA"
UserData == "#cloud-config user"

\* api.StatusCode values an instance state carries
StatusCodes == {"Started", "Stopped", "Running", "Starting", "Stopping",
                "Aborting", "Freezing", "Frozen", "Thawed", "Error", "Ready",
                "Success", "Failure", "Cancelled", "Pending", "Cancelling",
                "OperationCreated"}
\* the statuses on which Create gives up
TerminalStatuses == {"Aborting", "Freezing", "Frozen", "Thawed", "Error",
                     "Failure", "Cancelled"}

Addr(f, s, a) == [Family |-> f, Scope |-> s, Address |-> a]
\* address lists one interface may report
LoAddrs == <<Addr("inet", "local", "127.0.0.1"), Addr("inet6", "global", "fd42::5")>>
LeasedAddrs == <<Addr("inet6", "link", "fe80::1"), Addr("inet", "global", "10.0.0.5"),
                 Addr("inet", "global", "10.0.0.6")>>
OtherAddrs == <<Addr("inet", "local", "127.0.0.1"), Addr("inet", "link", "192.168.1.9")>>
AddrLists == {LoAddrs, LeasedAddrs, OtherAddrs}
\* the lists of an instance that has its lease
UpAddrLists == {LoAddrs, LeasedAddrs}

RECURSIVE IfaceNames(_)
IfaceNames(n) == IF n = 0 THEN {} ELSE IfaceNames(n - 1) \cup {"eth" \o Itoa(n - 1)}

\* state.Network: a Go map from interface name to its addresses
NetworksOf(lists) == UNION {[S -> lists] : S \in SUBSET IfaceNames(MaxIfaces)}
StateNetworks == NetworksOf(AddrLists)

NoState == [err |-> FALSE, StatusCode |-> "", Network |-> <<>>]
QueryError == [err |-> TRUE, StatusCode |-> "", Network |-> <<>>]
StateOf(s, n) == [err |-> FALSE, StatusCode |-> s, Network |-> n]

(* ---------------------------- state ------------------------------------ *)
VARIABLES
    \* configuration fields of Driver
    CPU, Memory, DiskSize, Project, Profile, Network, Storage, Image,
    CloudInitUserData, SSHPort, SSHUser,
    \* derived and cached fields of Driver
    incus, sshPublicKey, imgConfig, netConfig, diskConfig, rsrcConfig, isOVN,
    IPAddress,
    \* control: where the driver is, and Create's loop counter
    pc, retry,
    \* the operation in progress or last completed: its name, returned error
    \* ("" is nil), returned value, remote calls, the error of the Kill that
    \* Remove discards, the creation request it submitted, and the polling
    \* loop's state queries, sleeps and last response
    op, err, out, calls, killErr, request, nQueries, nSleeps, lastState

cfgVars == <<CPU, Memory, DiskSize, Project, Profile, Network, Storage, Image,
             CloudInitUserData, SSHPort, SSHUser>>
descVars == <<imgConfig, netConfig, diskConfig, rsrcConfig>>
vars == <<CPU, Memory, DiskSize, Project, Profile, Network, Storage, Image,
          CloudInitUserData, SSHPort, SSHUser, incus, sshPublicKey, imgConfig, netConfig,
          diskConfig, rsrcConfig, isOVN, IPAddress, pc, retry, op, err, out,
          calls, killErr, request, nQueries, nSleeps, lastState>>

\* NewDriver: every field but the BaseDriver names has its zero value
Init ==
    /\ CPU = 0 /\ Memory = 0 /\ DiskSize = 0
    /\ Project = "" /\ Profile = "" /\ Network = "" /\ Storage = ""
    /\ Image = "" /\ CloudInitUserData = ""
    /\ SSHPort = 0 /\ SSHUser = ""
    /\ incus = Nil /\ sshPublicKey = ""
    /\ imgConfig = Nil /\ netConfig = Nil /\ diskConfig = Nil /\ rsrcConfig = Nil
    /\ isOVN = FALSE /\ IPAddress = ""
    /\ pc = "idle" /\ retry = 0
    /\ op = "" /\ err = "" /\ out = "" /\ calls = <<>> /\ killErr = ""
    /\ request = Nil /\ nQueries = 0 /\ nSleeps = 0 /\ lastState = NoState

\* what an operation records of itself before any polling
Record(name, e, o, cs) ==
    /\ op' = name /\ err' = e /\ out' = o /\ calls' = cs
    /\ nQueries' = 0 /\ nSleeps' = 0 /\ lastState' = NoState

\* the operation returns to the host tool
Returns(name, e, o, cs) == Record(name, e, o, cs) /\ pc' = "returned"

\* the host tool has taken the result; the driver waits for the next call
Return ==
    /\ pc = "returned"
    /\ pc' = "idle"
    /\ Record("", "", "", <<>>)
    /\ killErr' = "" /\ request' = Nil
    /\ UNCHANGED <<cfgVars, incus, sshPublicKey, descVars, isOVN, IPAddress,
                   retry>>

(* ------------------------- SetConfigFromFlags --------------------------- *)
\* the flags that vary are the image, the network, the pool, the user-data
\* path, the SSH port and the SSH user; the others have their default values
SetConfigFromFlags(img, net, sto, ud, port, user) ==
    /\ pc = "idle"
    /\ CPU' = defaultCpus /\ Memory' = defaultMemory /\ DiskSize' = defaultDiskSize
    /\ Project' = defaultProject /\ Profile' = defaultProfile
    /\ Network' = net /\ Storage' = sto /\ Image' = img
    /\ SSHPort' = port /\ SSHUser' = user
    /\ CloudInitUserData' = ud
    /\ Returns("SetConfigFromFlags", "", "", <<>>)
    /\ killErr' = "" /\ request' = Nil
    /\ UNCHANGED <<incus, sshPublicKey, descVars, isOVN, IPAddress, retry>>

(* ------------------------------ getClient ------------------------------ *)
\* the test of the cached handle left out
getClientNoCache(h, project, fault) ==
    IF fault = "connect"
    THEN [incus |-> Nil, err |-> "failed to connect to incus: " \o RemoteErr,
          calls |-> <<Failed("ConnectIncus", "")>>]
    ELSE IF fault = "project"
    THEN [incus |-> Nil,
          err |-> "project " \o project \o " not found: " \o RemoteErr,
          calls |-> <<Call("ConnectIncus", ""), Failed("GetProject", project)>>]
    ELSE [incus |-> Some([project |-> project]), err |-> "",
          calls |-> <<Call("ConnectIncus", ""), Call("GetProject", project)>>]

\* the handle d.incus holds afterwards, the returned error and the calls made
getClient(h, project, fault) ==
    IF h # Nil THEN [incus |-> h, err |-> "", calls |-> <<>>]
    ELSE IF fault = "connect"
    THEN [incus |-> Nil, err |-> "failed to connect to incus: " \o RemoteErr,
          calls |-> <<Failed("ConnectIncus", "")>>]
    ELSE IF fault = "project"
    THEN [incus |-> Nil,
          err |-> "project " \o project \o " not found: " \o RemoteErr,
          calls |-> <<Call("ConnectIncus", ""), Failed("GetProject", project)>>]
    ELSE [incus |-> Some([project |-> project]), err |-> "",
          calls |-> <<Call("ConnectIncus", ""), Call("GetProject", project)>>]

(* ---------------- Start, Stop, Kill, Restart (request + wait) ---------- *)
\* a refused request submitted a second time
UpdateStateRetry(h, project, action, force, fault) ==
    LET c == getClient(h, project, fault)
        submit(ok) == c.calls \o <<CallForce("UpdateInstanceState", action, force, ok)>>
    IN  IF c.err # "" THEN c
        ELSE IF fault = "submit"
        THEN [incus |-> c.incus, err |-> "",
              calls |-> submit(FALSE)
                        \o <<CallForce("UpdateInstanceState", action, force, TRUE),
                             Call("Wait", "")>>]
        ELSE IF fault = "wait"
        THEN [incus |-> c.incus, err |-> RemoteErr,
              calls |-> submit(TRUE) \o <<Failed("Wait", "")>>]
        ELSE [incus |-> c.incus, err |-> "",
              calls |-> submit(TRUE) \o <<Call("Wait", "")>>]

\* getClient, UpdateInstanceState(MachineName, {action, force}, ""), op.Wait()
UpdateState(h, project, action, force, fault) ==
    LET c == getClient(h, project, fault)
        submit(ok) == c.calls \o <<CallForce("UpdateInstanceState", action, force, ok)>>
    IN  IF c.err # "" THEN c
        ELSE IF fault = "submit"
        THEN [incus |-> c.incus, err |-> RemoteErr, calls |-> submit(FALSE)]
        ELSE IF fault = "wait"
        THEN [incus |-> c.incus, err |-> RemoteErr,
              calls |-> submit(TRUE) \o <<Failed("Wait", "")>>]
        ELSE [incus |-> c.incus, err |-> "",
              calls |-> submit(TRUE) \o <<Call("Wait", "")>>]

KillRun(h, project, fault) == UpdateState(h, project, "stop", TRUE, fault)

Start(fault) ==
    LET r == UpdateState(incus, Project, "start", FALSE, fault)
    IN  /\ pc = "idle"
        /\ incus' = r.incus
        /\ Returns("Start", r.err, "", r.calls)
        /\ killErr' = "" /\ request' = Nil
        /\ UNCHANGED <<cfgVars, sshPublicKey, descVars, isOVN, IPAddress, retry>>

Stop(fault) ==
    LET r == UpdateState(incus, Project, "stop", FALSE, fault)
    IN  /\ pc = "idle"
        /\ incus' = r.incus
        /\ Returns("Stop", r.err, "", r.calls)
        /\ killErr' = "" /\ request' = Nil
        /\ UNCHANGED <<cfgVars, sshPublicKey, descVars, isOVN, IPAddress, retry>>

Kill(fault) ==
    LET r == KillRun(incus, Project, fault)
    IN  /\ pc = "idle"
        /\ incus' = r.incus
        /\ Returns("Kill", r.err, "", r.calls)
        /\ killErr' = "" /\ request' = Nil
        /\ UNCHANGED <<cfgVars, sshPublicKey, descVars, isOVN, IPAddress, retry>>

Restart(fault) ==
    LET r == UpdateState(incus, Project, "restart", FALSE, fault)
    IN  /\ pc = "idle"
        /\ incus' = r.incus
        /\ Returns("Restart", r.err, "", r.calls)
        /\ killErr' = "" /\ request' = Nil
        /\ UNCHANGED <<cfgVars, sshPublicKey, descVars, isOVN, IPAddress, retry>>

(* ------------------------------- Remove -------------------------------- *)
\* Kill's error returned instead of dropped
RemoveRunKillChecked(h, project, killFault, fault) ==
    LET k == KillRun(h, project, killFault)
        c == getClient(k.incus, project, fault)
        before == k.calls \o c.calls
        submitted == before \o <<Call("DeleteInstance", MachineName)>>
    IN  IF k.err # ""
        THEN [incus |-> k.incus, err |-> k.err, calls |-> k.calls, killErr |-> k.err]
        ELSE IF c.err # ""
        THEN [incus |-> c.incus, err |-> c.err, calls |-> before, killErr |-> k.err]
        ELSE IF fault = "submit"
        THEN [incus |-> c.incus, err |-> RemoteErr,
              calls |-> before \o <<Failed("DeleteInstance", MachineName)>>,
              killErr |-> k.err]
        ELSE IF fault = "wait"
        THEN [incus |-> c.incus, err |-> RemoteErr,
              calls |-> submitted \o <<Failed("Wait", "")>>, killErr |-> k.err]
        ELSE [incus |-> c.incus, err |-> "",
              calls |-> submitted \o <<Call("Wait", "")>>, killErr |-> k.err]

\* d.Kill() with its error dropped, then getClient, DeleteInstance and
\* op.Wait(); killErr is the dropped error
RemoveRun(h, project, killFault, fault) ==
    LET k == KillRun(h, project, killFault)
        c == getClient(k.incus, project, fault)
        before == k.calls \o c.calls
        submitted == before \o <<Call("DeleteInstance", MachineName)>>
    IN  IF c.err # ""
        THEN [incus |-> c.incus, err |-> c.err, calls |-> before, killErr |-> k.err]
        ELSE IF fault = "submit"
        THEN [incus |-> c.incus, err |-> RemoteErr,
              calls |-> before \o <<Failed("DeleteInstance", MachineName)>>,
              killErr |-> k.err]
        ELSE IF fault = "wait"
        THEN [incus |-> c.incus, err |-> RemoteErr,
              calls |-> submitted \o <<Failed("Wait", "")>>, killErr |-> k.err]
        ELSE [incus |-> c.incus, err |-> "",
              calls |-> submitted \o <<Call("Wait", "")>>, killErr |-> k.err]

Remove(killFault, fault) ==
    LET r == RemoveRun(incus, Project, killFault, fault)
    IN  /\ pc = "idle"
        /\ incus' = r.incus
        /\ Returns("Remove", r.err, "", r.calls)
        /\ killErr' = r.killErr /\ request' = Nil
        /\ UNCHANGED <<cfgVars, sshPublicKey, descVars, isOVN, IPAddress, retry>>

(* ------------------------------ GetState ------------------------------- *)
\* a stopping instance reported as stopping
StateForStopping(status) ==
    CASE status = "Starting" -> "Starting"
      [] status = "Running" -> "Running"
      [] status = "Stopping" -> "Stopping"
      [] status = "Stopped" -> "Stopped"
      [] status = "Frozen" -> "Paused"
      [] OTHER -> "None"

\* the switch on instance.StatusCode.String()
StateFor(status) ==
    CASE status = "Starting" -> "Starting"
      [] status = "Running" -> "Running"
      [] status = "Stopping" -> "Starting"
      [] status = "Stopped" -> "Stopped"
      [] status = "Frozen" -> "Paused"
      [] OTHER -> "None"

GetState(fault, resp) ==
    LET c == getClient(incus, Project, fault)
        queried == c.calls \o <<Replied("GetInstanceState", MachineName, resp.StatusCode)>>
        refused == c.calls \o <<Failed("GetInstanceState", MachineName)>>
    IN  /\ pc = "idle"
        /\ incus' = c.incus
        /\ IF c.err # "" THEN Returns("GetState", c.err, "Error", c.calls)
           ELSE IF resp.err THEN Returns("GetState", RemoteErr, "Error", refused)
           ELSE Returns("GetState", "", StateFor(resp.StatusCode), queried)
        /\ killErr' = "" /\ request' = Nil
        /\ UNCHANGED <<cfgVars, sshPublicKey, descVars, isOVN, IPAddress, retry>>

(* ------------------- Upgrade, GetSSHPort, GetSSHUsername --------------- *)
UpgradeErr == "upgrade is not supported for incus driver at this moment"

\* a connect made before the refusal
UpgradeConnects ==
    LET c == getClient(incus, Project, "none")
    IN  /\ pc = "idle"
        /\ incus' = c.incus
        /\ Returns("Upgrade", UpgradeErr, "", c.calls)
        /\ killErr' = "" /\ request' = Nil
        /\ UNCHANGED <<cfgVars, sshPublicKey, descVars, isOVN, IPAddress, retry>>

Upgrade ==
    /\ pc = "idle"
    /\ Returns("Upgrade", UpgradeErr, "", <<>>)
    /\ killErr' = "" /\ request' = Nil
    /\ UNCHANGED <<cfgVars, incus, sshPublicKey, descVars, isOVN, IPAddress, retry>>

\* the default returned whatever the field holds
GetSSHPortDefaultOnly ==
    /\ pc = "idle"
    /\ SSHPort' = defaultSSHPort
    /\ Returns("GetSSHPort", "", defaultSSHPort, <<>>)
    /\ killErr' = "" /\ request' = Nil
    /\ UNCHANGED <<CPU, Memory, DiskSize, Project, Profile, Network, Storage,
                   Image, CloudInitUserData, SSHUser, incus, sshPublicKey,
                   descVars, isOVN, IPAddress, retry>>

\* the field is given the default when it is 0, and returned
GetSSHPort ==
    LET port == IF SSHPort = 0 THEN defaultSSHPort ELSE SSHPort
    IN  /\ pc = "idle"
        /\ SSHPort' = port
        /\ Returns("GetSSHPort", "", port, <<>>)
        /\ killErr' = "" /\ request' = Nil
        /\ UNCHANGED <<CPU, Memory, DiskSize, Project, Profile, Network, Storage,
                       Image, CloudInitUserData, SSHUser, incus, sshPublicKey,
                       descVars, isOVN, IPAddress, retry>>

\* the field is given the default when it is empty, and returned
GetSSHUsername ==
    LET user == IF SSHUser = "" THEN defaultSSHUser ELSE SSHUser
    IN  /\ pc = "idle"
        /\ SSHUser' = user
        /\ Returns("GetSSHUsername", "", user, <<>>)
        /\ killErr' = "" /\ request' = Nil
        /\ UNCHANGED <<CPU, Memory, DiskSize, Project, Profile, Network, Storage,
                       Image, CloudInitUserData, SSHPort, incus, sshPublicKey,
                       descVars, isOVN, IPAddress, retry>>

(* ------------------------- the resolvers ------------------------------- *)
LocalSource(image) == [Type |-> "image", Alias |-> image, Server |-> "", Protocol |-> ""]
RemoteSource(image) ==
    [Type |-> "image", Alias |-> image, Server |-> imageServer,
     Protocol |-> "simplestreams"]

\* the test for an empty reference made after the local lookup
getImageLateCheck(h, project, image, fault, localHas, remoteUp, remoteHas) ==
    LET c == getClient(h, project, fault)
        missed == c.calls \o <<Failed("GetImageAlias", image)>>
        conn == missed \o <<Call("ConnectSimpleStreams", imageServer)>>
    IN  IF c.err # ""
        THEN [val |-> Nil, err |-> c.err, calls |-> c.calls, incus |-> c.incus]
        ELSE IF localHas /\ image # ""
        THEN [val |-> Some(LocalSource(image)), err |-> "",
              calls |-> c.calls \o <<Call("GetImageAlias", image)>>, incus |-> c.incus]
        ELSE IF image = ""
        THEN [val |-> Nil, err |-> "image is required", calls |-> missed,
              incus |-> c.incus]
        ELSE IF ~remoteUp
        THEN [val |-> Nil, err |-> "failed to connect to image server: " \o RemoteErr,
              calls |-> missed \o <<Failed("ConnectSimpleStreams", imageServer)>>,
              incus |-> c.incus]
        ELSE IF ~remoteHas
        THEN [val |-> Nil, err |-> "image " \o image \o " not found in image server",
              calls |-> conn \o <<Failed("imgSrv.GetImageAlias", image)>>,
              incus |-> c.incus]
        ELSE [val |-> Some(RemoteSource(image)), err |-> "",
              calls |-> conn \o <<Call("imgSrv.GetImageAlias", image)>>,
              incus |-> c.incus]

\* the image server asked before the project's catalog
getImageRemoteFirst(h, project, image, fault, localHas, remoteUp, remoteHas) ==
    LET c == getClient(h, project, fault)
        conn == c.calls \o <<Call("ConnectSimpleStreams", imageServer)>>
        missed == conn \o <<Failed("imgSrv.GetImageAlias", image)>>
        unreachable == c.calls \o <<Failed("ConnectSimpleStreams", imageServer)>>
        asked == IF remoteUp THEN missed ELSE unreachable
    IN  IF image = ""
        THEN [val |-> Nil, err |-> "image is required", calls |-> <<>>, incus |-> h]
        ELSE IF c.err # ""
        THEN [val |-> Nil, err |-> c.err, calls |-> c.calls, incus |-> c.incus]
        ELSE IF remoteUp /\ remoteHas
        THEN [val |-> Some(RemoteSource(image)), err |-> "",
              calls |-> conn \o <<Call("imgSrv.GetImageAlias", image)>>,
              incus |-> c.incus]
        ELSE IF localHas
        THEN [val |-> Some(LocalSource(image)), err |-> "",
              calls |-> asked \o <<Call("GetImageAlias", image)>>, incus |-> c.incus]
        ELSE [val |-> Nil, err |-> "image " \o image \o " not found in image server",
              calls |-> asked \o <<Failed("GetImageAlias", image)>>,
              incus |-> c.incus]

\* localHas: the project's catalog has the alias; remoteUp: the image server
\* accepts the connection; remoteHas: the image server has the alias
getImage(h, project, image, fault, localHas, remoteUp, remoteHas) ==
    LET c == getClient(h, project, fault)
        missed == c.calls \o <<Failed("GetImageAlias", image)>>
        conn == missed \o <<Call("ConnectSimpleStreams", imageServer)>>
    IN  IF image = ""
        THEN [val |-> Nil, err |-> "image is required", calls |-> <<>>, incus |-> h]
        ELSE IF c.err # ""
        THEN [val |-> Nil, err |-> c.err, calls |-> c.calls, incus |-> c.incus]
        ELSE IF localHas
        THEN [val |-> Some(LocalSource(image)), err |-> "",
              calls |-> c.calls \o <<Call("GetImageAlias", image)>>, incus |-> c.incus]
        ELSE IF ~remoteUp
        THEN [val |-> Nil, err |-> "failed to connect to image server: " \o RemoteErr,
              calls |-> missed \o <<Failed("ConnectSimpleStreams", imageServer)>>,
              incus |-> c.incus]
        ELSE IF ~remoteHas
        THEN [val |-> Nil, err |-> "image " \o image \o " not found in image server",
              calls |-> conn \o <<Failed("imgSrv.GetImageAlias", image)>>,
              incus |-> c.incus]
        ELSE [val |-> Some(RemoteSource(image)), err |-> "",
              calls |-> conn \o <<Call("imgSrv.GetImageAlias", image)>>,
              incus |-> c.incus]

\* the interface named "eth0" whatever the bridge
BridgedNICEth0(network) ==
    [name |-> "eth0", type |-> "nic", nictype |-> "bridged", parent |-> network]

BridgedNIC(network) ==
    [name |-> network, type |-> "nic", nictype |-> "bridged", parent |-> network]

\* the interface named after the network
OVNNICNamed(network) == [name |-> network, type |-> "nic", network |-> network]

OVNNIC(network) == [name |-> "eth0", type |-> "nic", network |-> network]

\* "macvlan" added to the supported types
getNetworkMacvlan(h, project, network, ovn, fault, netType) ==
    LET c == getClient(h, project, fault)
        queried == c.calls \o <<Replied("GetNetwork", network, netType)>>
    IN  IF network = ""
        THEN [val |-> Nil, err |-> "network is required", calls |-> <<>>,
              incus |-> h, isOVN |-> ovn]
        ELSE IF c.err # ""
        THEN [val |-> Nil, err |-> c.err, calls |-> c.calls, incus |-> c.incus,
              isOVN |-> ovn]
        ELSE IF fault = "network"
        THEN [val |-> Nil, err |-> "network " \o network \o " not found: " \o RemoteErr,
              calls |-> c.calls \o <<Failed("GetNetwork", network)>>,
              incus |-> c.incus, isOVN |-> ovn]
        ELSE IF netType \notin {"bridge", "ovn", "macvlan"}
        THEN [val |-> Nil, err |-> "network type " \o netType \o " not supported",
              calls |-> queried, incus |-> c.incus, isOVN |-> ovn]
        ELSE IF netType = "bridge"
        THEN [val |-> Some(BridgedNIC(network)), err |-> "", calls |-> queried,
              incus |-> c.incus, isOVN |-> ovn]
        ELSE [val |-> Some(OVNNIC(network)), err |-> "", calls |-> queried,
              incus |-> c.incus, isOVN |-> TRUE]

\* ovn: the value of d.isOVN before the call; netType: the type GetNetwork reports
getNetwork(h, project, network, ovn, fault, netType) ==
    LET c == getClient(h, project, fault)
        queried == c.calls \o <<Replied("GetNetwork", network, netType)>>
    IN  IF network = ""
        THEN [val |-> Nil, err |-> "network is required", calls |-> <<>>,
              incus |-> h, isOVN |-> ovn]
        ELSE IF c.err # ""
        THEN [val |-> Nil, err |-> c.err, calls |-> c.calls, incus |-> c.incus,
              isOVN |-> ovn]
        ELSE IF fault = "network"
        THEN [val |-> Nil, err |-> "network " \o network \o " not found: " \o RemoteErr,
              calls |-> c.calls \o <<Failed("GetNetwork", network)>>,
              incus |-> c.incus, isOVN |-> ovn]
        ELSE IF netType \notin {"bridge", "ovn"}
        THEN [val |-> Nil, err |-> "network type " \o netType \o " not supported",
              calls |-> queried, incus |-> c.incus, isOVN |-> ovn]
        ELSE IF netType = "bridge"
        THEN [val |-> Some(BridgedNIC(network)), err |-> "", calls |-> queried,
              incus |-> c.incus, isOVN |-> ovn]
        ELSE [val |-> Some(OVNNIC(network)), err |-> "", calls |-> queried,
              incus |-> c.incus, isOVN |-> TRUE]

getStorage(h, project, storage, diskSize, fault) ==
    LET c == getClient(h, project, fault)
        queried == c.calls \o <<Call("GetStoragePool", storage)>>
    IN  IF storage = ""
        THEN [val |-> Nil, err |-> "storage is required", calls |-> <<>>, incus |-> h]
        ELSE IF c.err # ""
        THEN [val |-> Nil, err |-> c.err, calls |-> c.calls, incus |-> c.incus]
        ELSE IF fault = "storage"
        THEN [val |-> Nil, err |-> "storage " \o storage \o " not found: " \o RemoteErr,
              calls |-> c.calls \o <<Failed("GetStoragePool", storage)>>,
              incus |-> c.incus]
        ELSE [val |-> Some([type |-> "disk", path |-> "/", pool |-> storage,
                            size |-> Itoa(diskSize) \o "MiB"]),
              err |-> "", calls |-> queried, incus |-> c.incus]

getResource(cpu, memory) ==
    [val |-> Some(("limits.cpu" :> Itoa(cpu)) @@ ("limits.memory" :> (Itoa(memory) \o "MiB"))),
     err |-> ""]

(* --------------------------- PreCreateCheck ---------------------------- *)
PreCreateCheck(fault, localHas, remoteUp, remoteHas, netType) ==
    LET c == getClient(incus, Project, fault)
        profiled == c.calls \o <<Call("GetProfile", Profile)>>
        img == getImage(c.incus, Project, Image, fault, localHas, remoteUp, remoteHas)
        net == getNetwork(img.incus, Project, Network, isOVN, fault, netType)
        sto == getStorage(net.incus, Project, Storage, DiskSize, fault)
        res == getResource(CPU, Memory)
        done(e, cs) == /\ Returns("PreCreateCheck", e, "", cs)
                       /\ killErr' = "" /\ request' = Nil
                       /\ UNCHANGED <<cfgVars, sshPublicKey, IPAddress, retry>>
    IN  /\ pc = "idle"
        /\ IF c.err # ""
           THEN /\ incus' = c.incus /\ done(c.err, c.calls)
                /\ UNCHANGED <<descVars, isOVN>>
           ELSE IF fault = "profile"
           THEN /\ incus' = c.incus
                /\ done("profile " \o Profile \o " not found: " \o RemoteErr,
                        c.calls \o <<Failed("GetProfile", Profile)>>)
                /\ UNCHANGED <<descVars, isOVN>>
           ELSE IF img.err # ""
           THEN /\ incus' = img.incus /\ imgConfig' = img.val
                /\ done(img.err, profiled \o img.calls)
                /\ UNCHANGED <<netConfig, diskConfig, rsrcConfig, isOVN>>
           ELSE IF net.err # ""
           THEN /\ incus' = net.incus /\ imgConfig' = img.val /\ netConfig' = net.val
                /\ isOVN' = net.isOVN
                /\ done(net.err, profiled \o img.calls \o net.calls)
                /\ UNCHANGED <<diskConfig, rsrcConfig>>
           ELSE IF sto.err # ""
           THEN /\ incus' = sto.incus /\ imgConfig' = img.val /\ netConfig' = net.val
                /\ isOVN' = net.isOVN /\ diskConfig' = sto.val
                /\ done(sto.err, profiled \o img.calls \o net.calls \o sto.calls)
                /\ UNCHANGED rsrcConfig
           ELSE /\ incus' = sto.incus /\ imgConfig' = img.val /\ netConfig' = net.val
                /\ isOVN' = net.isOVN /\ diskConfig' = sto.val /\ rsrcConfig' = res.val
                /\ done(res.err, profiled \o img.calls \o net.calls \o sto.calls)

(* ------------------------------- Create -------------------------------- *)
KeyErr == "ssh key generation failed"
NilMapPanic == "panic: assignment to entry in nil map"
NilDerefPanic == "panic: invalid memory address or nil pointer dereference"
TimeoutErr == "timeout waiting for instance to get IP address"
StatusErr(status) == "instance state is " \o status

\* the config map of the request: the aliased d.rsrcConfig after the writes
CreateConfig(rsrc, key, userData, readOK, ovn) ==
    LET vendor == MapPut(rsrc, "cloud-init.vendor-data", VendorData(key))
        user == IF userData # "" /\ readOK
                THEN MapPut(vendor, "cloud-init.user-data", UserData)
                ELSE vendor
    IN  IF ovn THEN MapPut(user, "cloud-init.network-config", cloudInitNetworkConfigOVN)
        ELSE user

CreateRequest(config) ==
    [Name |-> MachineName, Type |-> "virtual-machine", Start |-> TRUE,
     Source |-> Val(imgConfig), Profiles |-> <<Profile>>,
     Description |-> "Created by Rancher Machine", Config |-> config,
     Devices |-> [root |-> diskConfig, eth0 |-> netConfig]]

\* the error of op.Wait() dropped
SubmitAndWaitUnchecked(cs, fault) ==
    IF fault = "submit"
    THEN [err |-> RemoteErr, calls |-> cs \o <<Failed("CreateInstance", MachineName)>>,
          poll |-> FALSE]
    ELSE IF fault = "wait"
    THEN [err |-> "",
          calls |-> cs \o <<Call("CreateInstance", MachineName), Failed("Wait", "")>>,
          poll |-> TRUE]
    ELSE [err |-> "",
          calls |-> cs \o <<Call("CreateInstance", MachineName), Call("Wait", "")>>,
          poll |-> TRUE]

\* client.CreateInstance(req) and op.Wait() after the calls cs: the error,
\* the calls, and whether Create goes on to poll
SubmitAndWait(cs, fault) ==
    IF fault = "submit"
    THEN [err |-> RemoteErr, calls |-> cs \o <<Failed("CreateInstance", MachineName)>>,
          poll |-> FALSE]
    ELSE IF fault = "wait"
    THEN [err |-> RemoteErr,
          calls |-> cs \o <<Call("CreateInstance", MachineName), Failed("Wait", "")>>,
          poll |-> FALSE]
    ELSE [err |-> "",
          calls |-> cs \o <<Call("CreateInstance", MachineName), Call("Wait", "")>>,
          poll |-> TRUE]

\* keyOK: getSSHKey succeeds; readOK: the user-data file can be read.
\* Up to op.Wait(); the polling loop is CreatePoll.
Create(keyOK, fault, readOK) ==
    LET c == getClient(incus, Project, fault)
        config == CreateConfig(Val(rsrcConfig), PubKey, CloudInitUserData, readOK, isOVN)
        sw == SubmitAndWait(c.calls, fault)
        frame == /\ killErr' = ""
                 /\ UNCHANGED <<cfgVars, imgConfig, netConfig, diskConfig, isOVN,
                                IPAddress, retry>>
    IN  /\ pc = "idle"
        /\ frame
        /\ IF ~keyOK
           THEN /\ Returns("Create", KeyErr, "", <<>>)
                /\ request' = Nil
                /\ UNCHANGED <<sshPublicKey, incus, rsrcConfig>>
           ELSE /\ sshPublicKey' = PubKey
                /\ incus' = c.incus
                /\ IF c.err # ""
                   THEN /\ Returns("Create", c.err, "", c.calls)
                        /\ request' = Nil
                        /\ UNCHANGED rsrcConfig
                   ELSE IF rsrcConfig = Nil
                   THEN /\ Record("Create", NilMapPanic, "", c.calls)
                        /\ request' = Nil /\ pc' = "panicked"
                        /\ UNCHANGED rsrcConfig
                   ELSE /\ rsrcConfig' = Some(config)
                        /\ IF imgConfig = Nil
                           THEN /\ Record("Create", NilDerefPanic, "", c.calls)
                                /\ request' = Nil /\ pc' = "panicked"
                           ELSE /\ request' = Some(CreateRequest(config))
                                /\ Record("Create", sw.err, "", sw.calls)
                                /\ pc' = IF sw.poll THEN "polling" ELSE "returned"

\* the scope test left out
QualifiesAnyScope(a) == a.Family = "inet"

\* the test of the inner loop on one address
Qualifies(a) == a.Family = "inet" /\ a.Scope # "local"
HasQualifying(addrs) == \E i \in DOMAIN addrs : Qualifies(addrs[i])
\* the address the inner loop stops at
FirstQualifying(addrs) ==
    LET i == CHOOSE j \in DOMAIN addrs :
                 /\ Qualifies(addrs[j])
                 /\ \A k \in 1..(j - 1) : ~Qualifies(addrs[k])
    IN  addrs[i].Address
\* range over the map state.Network visits the interfaces in any order
Candidates(network) ==
    {FirstQualifying(network[n]) : n \in {m \in DOMAIN network : HasQualifying(network[m])}}

\* the address scan moved before the status test
PollStepScanFirst(resp) ==
    IF resp.err THEN "error"
    ELSE IF Candidates(resp.Network) # {} THEN "found"
    ELSE IF resp.StatusCode \in TerminalStatuses THEN "status"
    ELSE "sleep"

\* what one iteration does with the response: the first test of the loop
\* body that applies
PollStep(resp) ==
    IF resp.err THEN "error"
    ELSE IF resp.StatusCode \in TerminalStatuses THEN "status"
    ELSE IF Candidates(resp.Network) # {} THEN "found"
    ELSE "sleep"

\* the budget counted in queries instead of retries
ExhaustedAtBudget(r) == r >= maxRetries

\* the test of the counter left out
ExhaustedNever(r) == FALSE

\* the test that ends the loop, on the incremented counter
Exhausted(r) == r > maxRetries

\* one iteration of the polling loop, resp being what GetInstanceState returns
CreatePoll(resp) ==
    LET leave(e) == /\ err' = e /\ pc' = "returned" /\ retry' = 0
        step == PollStep(resp)
    IN  /\ pc = "polling"
        /\ nQueries' = nQueries + 1
        /\ lastState' = resp
        /\ UNCHANGED <<cfgVars, incus, sshPublicKey, descVars, isOVN, op, out,
                       calls, killErr, request>>
        /\ CASE step = "error" ->
                  leave(RemoteErr) /\ UNCHANGED <<IPAddress, nSleeps>>
             [] step = "status" ->
                  leave(StatusErr(resp.StatusCode)) /\ UNCHANGED <<IPAddress, nSleeps>>
             [] step = "found" ->
                  /\ \E a \in Candidates(resp.Network) : IPAddress' = a
                  /\ leave("") /\ UNCHANGED nSleeps
             [] step = "sleep" ->
                  /\ nSleeps' = nSleeps + 1
                  /\ UNCHANGED IPAddress
                  /\ IF Exhausted(retry + 1)
                     THEN leave(TimeoutErr)
                     ELSE retry' = retry + 1 /\ UNCHANGED <<err, pc>>

(* --------------------------- specifications ---------------------------- *)
\* the statuses Create's loop may see
PollStatuses == TerminalStatuses \cup {"Running"}
\* the instance-state responses Create's loop may get
PollResponses == {QueryError} \cup {StateOf(s, n) : s \in PollStatuses, n \in StateNetworks}
\* those of an instance that is up or has failed by the time Create first asks
UpResponses ==
    {QueryError} \cup {StateOf(s, n) : s \in {"Running", "Error"},
                       n \in {m \in NetworksOf(UpAddrLists) : Candidates(m) # {}}}
\* what GetState may get
StateResponses == {QueryError} \cup {StateOf(s, <<>>) : s \in StatusCodes}
\* a server that cannot be reached, or has not the project, answers no query
Unreached(fault) == fault \in {"connect", "project"}
StateInputs ==
    {in \in [fault : ClientFaults, resp : StateResponses] :
        Unreached(in.fault) => in.resp = QueryError}
\* what PreCreateCheck may find: the first call that fails, the two image
\* catalogs and the type of the network
PreInputs ==
    {in \in [fault : PreFaults, localHas : BOOLEAN, remoteUp : BOOLEAN,
             remoteHas : BOOLEAN, netType : NetworkTypes] :
        /\ Unreached(in.fault) => ~in.localHas /\ in.netType = "bridge"
        /\ ~in.remoteUp => ~in.remoteHas}

\* The whole lifecycle, over every configuration and every failure of the
\* server, of an instance that is up or has failed when Create first asks.
Next ==
    \/ \E img \in Images, net \in Networks, sto \in Storages :
          SetConfigFromFlags(img, net, sto, "", defaultSSHPort, defaultSSHUser)
    \/ \E in \in PreInputs :
          PreCreateCheck(in.fault, in.localHas, in.remoteUp, in.remoteHas, in.netType)
    \/ \E keyOK \in BOOLEAN, fault \in OpFaults : Create(keyOK, fault, TRUE)
    \/ \E resp \in UpResponses : CreatePoll(resp)
    \/ \E fault \in OpFaults : Start(fault)
    \/ \E fault \in OpFaults : Stop(fault)
    \/ \E fault \in OpFaults : Kill(fault)
    \/ \E fault \in OpFaults : Restart(fault)
    \/ \E killFault, fault \in OpFaults : Remove(killFault, fault)
    \/ \E in \in StateInputs : GetState(in.fault, in.resp)
    \/ Upgrade
    \/ Return

Spec == Init /\ [][Next]_vars

\* Create and its polling loop, over every response sequence, of a driver
\* configured with the defaults against a server that has what they name.
NextPoll ==
    \/ SetConfigFromFlags("debian/12", defaultNetwork, defaultStorage, "",
                          defaultSSHPort, defaultSSHUser)
    \/ PreCreateCheck("none", TRUE, TRUE, TRUE, "bridge")
    \/ \E fault \in {"none", "submit", "wait"} : Create(TRUE, fault, TRUE)
    \/ \E resp \in PollResponses : CreatePoll(resp)
    \/ Return

SpecPoll == Init /\ [][NextPoll]_vars

\* The polling loop under the assumption that every state query and every
\* sleep returns: an iteration that can be made is eventually made.  The
\* responses are those of an instance with at most the interface "eth0",
\* which give every outcome of an iteration.
OneIfaceNetworks == UNION {[S -> AddrLists] : S \in SUBSET {"eth0"}}
FairResponses ==
    {QueryError} \cup {StateOf(s, n) : s \in PollStatuses, n \in OneIfaceNetworks}
NextPollFair ==
    \/ SetConfigFromFlags("debian/12", defaultNetwork, defaultStorage, "",
                          defaultSSHPort, defaultSSHUser)
    \/ PreCreateCheck("none", TRUE, TRUE, TRUE, "bridge")
    \/ \E fault \in {"none", "submit", "wait"} : Create(TRUE, fault, TRUE)
    \/ \E resp \in FairResponses : CreatePoll(resp)
    \/ Return

SpecPollFair ==
    /\ Init /\ [][NextPollFair]_vars
    /\ WF_vars(\E resp \in FairResponses : CreatePoll(resp))

\* Network resolution and what Create makes of it, over every network name
\* and type, on a server that has the image and the pool.
NetInputs == [fault : {"none", "network", "storage"}, netType : NetworkTypes]
NextNet ==
    \/ \E net \in NetworkNames :
          SetConfigFromFlags("debian/12", net, defaultStorage, "",
                             defaultSSHPort, defaultSSHUser)
    \/ \E in \in NetInputs : PreCreateCheck(in.fault, TRUE, TRUE, TRUE, in.netType)
    \/ \E fault \in {"none", "submit"} : Create(TRUE, fault, TRUE)
    \/ \E resp \in UpResponses : CreatePoll(resp)
    \/ Return

SpecNet == Init /\ [][NextNet]_vars

\* The accessors of the SSH settings, over configured and unset values.
SSHPorts == {0, defaultSSHPort, 2222}
SSHUsers == {"", defaultSSHUser, "admin"}
NextSSH ==
    \/ \E img \in Images, net \in Networks, port \in SSHPorts, user \in SSHUsers :
          SetConfigFromFlags(img, net, defaultStorage, "", port, user)
    \/ GetSSHPort
    \/ GetSSHUsername
    \/ Upgrade
    \/ Return

SpecSSH == Init /\ [][NextSSH]_vars

(* ------------------------- the polling loop ---------------------------- *)
\* Create has returned from its polling loop
Polled == pc = "returned" /\ op = "Create" /\ nQueries > 0

\* C1 as stated: when no response qualifies or ends the loop, Create fails
\* with the timeout error after exactly 100 state queries and there is
\* never a 101st.
C1_TimeoutAfter100Queries ==
    /\ nQueries <= 100
    /\ (Polled /\ err = TimeoutErr => nQueries = 100)

\* C1 amended: the loop makes the first query and then up to maxRetries
\* retries.  When no response holds an IPv4 address of scope other than
\* "local", a terminal status or a query error, Create fails with the
\* timeout error after exactly maxRetries + 1 = 101 state queries and 101
\* sleeps, and never makes a 102nd query.
C1_TimeoutAfter101Queries ==
    LET qualifying(resp) ==
            \E n \in DOMAIN resp.Network : \E i \in DOMAIN resp.Network[n] :
                /\ resp.Network[n][i].Family = "inet"
                /\ resp.Network[n][i].Scope # "local"
        barren(resp) ==
            /\ ~resp.err
            /\ resp.StatusCode \notin {"Aborting", "Freezing", "Frozen", "Thawed",
                                       "Error", "Failure", "Cancelled"}
            /\ ~qualifying(resp)
    IN  /\ nQueries <= 101
        /\ (pc = "polling" => nQueries <= 100)
        /\ (pc = "polling" /\ nQueries > 0 => barren(lastState))
        /\ (Polled /\ err = TimeoutErr =>
                nQueries = 101 /\ nSleeps = 101 /\ barren(lastState))
        /\ (Polled /\ nQueries = 101 /\ barren(lastState) => err = TimeoutErr)

\* Create has timed out
C1_Witness == Polled /\ err = TimeoutErr /\ nQueries = 101

\* C2: for every K within the budget, when the first K responses hold no
\* qualifying address (and no terminal status or error) and response K+1
\* holds one, the loop makes exactly K+1 queries and K sleeps, records a
\* qualifying address of response K+1 as IPAddress and Create returns nil.
C2_FoundAfterKSleeps ==
    LET qualifying(resp) ==
            UNION {{resp.Network[n][i].Address :
                        i \in {j \in DOMAIN resp.Network[n] :
                                  /\ resp.Network[n][j].Family = "inet"
                                  /\ resp.Network[n][j].Scope # "local"}} :
                   n \in DOMAIN resp.Network}
        terminal(resp) ==
            resp.StatusCode \in {"Aborting", "Freezing", "Frozen", "Thawed",
                                 "Error", "Failure", "Cancelled"}
    IN  /\ (pc = "polling" =>
                /\ nSleeps = nQueries
                /\ nQueries <= maxRetries
                /\ (nQueries > 0 => /\ ~lastState.err /\ ~terminal(lastState)
                                    /\ qualifying(lastState) = {}))
        /\ (Polled /\ ~lastState.err /\ ~terminal(lastState)
                   /\ qualifying(lastState) # {} =>
                /\ err = ""
                /\ nSleeps = nQueries - 1
                /\ nQueries <= maxRetries + 1
                /\ IPAddress \in qualifying(lastState))
        /\ (Polled /\ err = "" =>
                /\ ~lastState.err /\ ~terminal(lastState)
                /\ IPAddress \in qualifying(lastState))

\* the address arrives with the last query the budget allows
C2_Witness ==
    /\ Polled /\ err = "" /\ nQueries = maxRetries + 1 /\ nSleeps = maxRetries
    /\ IPAddress = "10.0.0.5"

\* C3: when a queried status is aborting, freezing, frozen, thawed, error,
\* failure or cancelled, Create fails on that iteration with the error
\* naming the status, without a sleep, another query or a recorded address,
\* whatever addresses the response carries.
C3_TerminalStatusFailsAtOnce ==
    [][/\ (/\ pc = "polling"
           /\ ~lastState'.err
           /\ lastState'.StatusCode \in {"Aborting", "Freezing", "Frozen", "Thawed",
                                         "Error", "Failure", "Cancelled"}
           => /\ pc' = "returned"
              /\ err' = "instance state is " \o lastState'.StatusCode
              /\ nQueries' = nQueries + 1
              /\ nSleeps' = nSleeps
              /\ IPAddress' = IPAddress)
       /\ (pc = "returned" => pc' = "idle" /\ nQueries' = 0)]_vars

\* a frozen instance that reports a leased address on the second query
C3_Witness ==
    /\ Polled /\ nQueries = 2 /\ nSleeps = 1
    /\ lastState.StatusCode = "Frozen"
    /\ "eth0" \in DOMAIN lastState.Network
    /\ lastState.Network["eth0"] = LeasedAddrs
    /\ err = "instance state is Frozen"
    /\ IPAddress = ""

\* C18: provided every state query and every sleep returns, the polling
\* loop of Create always ends, whatever the sequence of responses: Create
\* returns nil, the error of the query, the error naming a terminal status
\* or the timeout error, and has made at most maxRetries + 1 state queries.
C18_CreateTerminates ==
    /\ [](nQueries <= maxRetries + 1)
    /\ (pc = "polling") ~>
           (/\ pc = "returned" /\ op = "Create" /\ nQueries > 0
            /\ err \in {"", "remote error",
                        "timeout waiting for instance to get IP address"}
                       \cup {"instance state is " \o s :
                                s \in {"Aborting", "Freezing", "Frozen", "Thawed",
                                       "Error", "Failure", "Cancelled"}})

\* the loop ended by a cancelled instance on the last query of the budget
C18_Witness ==
    /\ Polled /\ nQueries = maxRetries + 1 /\ nSleeps = maxRetries
    /\ err = "instance state is Cancelled"

\* C20: the address a successful Create records is determined by the
\* response that ended the loop: it is one of its IPv4 addresses of scope
\* other than "local", and no response lets the iteration that ends the
\* loop record two different addresses, even when it reports several
\* interfaces with such addresses.
C20_AddressDetermined ==
    LET addresses == UNION {{l[i].Address : i \in DOMAIN l} : l \in AddrLists}
        recorded(resp) ==
            {a \in addresses :
                ENABLED (/\ CreatePoll(resp)
                         /\ pc' = "returned" /\ err' = "" /\ IPAddress' = a)}
    IN  /\ Polled /\ err = "" =>
               \E n \in DOMAIN lastState.Network :
                   \E i \in DOMAIN lastState.Network[n] :
                       /\ lastState.Network[n][i].Address = IPAddress
                       /\ lastState.Network[n][i].Family = "inet"
                       /\ lastState.Network[n][i].Scope # "local"
        /\ pc = "polling" =>
               \A resp \in PollResponses : Cardinality(recorded(resp)) <= 1

(* ------------------------ the lifecycle -------------------------------- *)
\* the named operation has returned
Returned(name) == pc = "returned" /\ op = name
\* the positions of the calls of one name in the log
CallsTo(cs, name) == {i \in DOMAIN cs : cs[i].call = name}

\* C4 as stated: whatever makes Kill fail, Remove issues the delete request,
\* and Remove's result is that of the delete request and its wait alone.
C4_RemoveAlwaysDeletes ==
    Returned("Remove") =>
        /\ CallsTo(calls, "DeleteInstance") # {}
        /\ err = "" <=> (calls[Len(calls)].call = "Wait" /\ calls[Len(calls)].ok)

\* C4 amended: Remove invokes the forced Kill first and drops its error;
\* it then takes the client itself, connecting again when Kill left no
\* handle.  Unless that connect or project lookup fails, Remove issues the
\* delete request whatever Kill returned, and Remove's result is determined
\* only by its own connect, the delete request and its wait.
C4_RemoveIgnoresKillError ==
    Returned("Remove") =>
        LET last == calls[Len(calls)]
            stops == {i \in CallsTo(calls, "UpdateInstanceState") :
                         calls[i].action = "stop" /\ calls[i].force}
        IN  /\ calls # <<>>
            /\ killErr = "" <=> \E i \in stops : /\ calls[i].ok
                                                 /\ calls[i + 1].call = "Wait"
                                                 /\ calls[i + 1].ok
            /\ \A i \in CallsTo(calls, "DeleteInstance") :
                   \/ \E j \in stops : j < i
                   \/ \E j \in 1..(i - 1) :
                          calls[j].call \in {"ConnectIncus", "GetProject"} /\ ~calls[j].ok
            /\ Cardinality(CallsTo(calls, "DeleteInstance")) <= 1
            /\ incus # Nil <=> CallsTo(calls, "DeleteInstance") # {}
            /\ incus = Nil => /\ last.call \in {"ConnectIncus", "GetProject"}
                              /\ ~last.ok /\ err # ""
            /\ incus # Nil =>
                   /\ last.call \in {"DeleteInstance", "Wait"}
                   /\ err = "" <=> (last.call = "Wait" /\ last.ok)
                   /\ err # "" => err = "remote error"

\* Kill could not connect, Remove connected and deleted the instance
C4_Witness ==
    /\ Returned("Remove") /\ err = ""
    /\ killErr = "failed to connect to incus: remote error"
    /\ CallsTo(calls, "DeleteInstance") # {}

\* C5: once PreCreateCheck has set the four descriptors, Create, Start,
\* Stop, Restart, Kill, GetState and Remove leave them as they are, and the
\* resource-limit descriptor keeps exactly its CPU and memory keys.
C5_DescriptorsWriteOnce ==
    [][/\ imgConfig # Nil /\ netConfig # Nil /\ diskConfig # Nil /\ rsrcConfig # Nil
       /\ op' \in {"Create", "Start", "Stop", "Restart", "Kill", "GetState", "Remove"}
       => /\ imgConfig' = imgConfig /\ netConfig' = netConfig
          /\ diskConfig' = diskConfig /\ rsrcConfig' = rsrcConfig
          /\ DOMAIN Val(rsrcConfig') = {"limits.cpu", "limits.memory"}]_vars

\* C6: once a connect with its project lookup has succeeded the handle is
\* never replaced and no operation connects or looks the project up again;
\* a failed connect or project lookup leaves the handle unset and the next
\* operation connects again.
C6_ConnectIdempotent ==
    [][/\ incus # Nil =>
              /\ incus' = incus
              /\ pc = "idle" =>
                     CallNames(calls') \cap {"ConnectIncus", "GetProject"} = {}
       /\ incus = Nil /\ pc = "idle" =>
              /\ op' \in {"Start", "Stop", "Kill", "Restart", "Remove", "GetState",
                          "PreCreateCheck"}
                     => calls' # <<>> /\ calls'[1].call = "ConnectIncus"
              /\ incus' # Nil <=>
                     \E i \in CallsTo(calls', "GetProject") : calls'[i].ok
              /\ incus' # Nil => incus' = <<[project |-> Project]>>]_vars

\* Start has reused the handle an earlier operation left
C6_Witness ==
    /\ Returned("Start") /\ incus # Nil
    /\ calls # <<>> /\ calls[1].call = "UpdateInstanceState"

\* C7 as stated: an empty image reference, network name or pool name makes
\* PreCreateCheck fail before any remote call.
C7_RequiredBeforeAnyCall ==
    Returned("PreCreateCheck")
    /\ err \in {"image is required", "network is required", "storage is required"}
    => calls = <<>>

\* C7 amended: an empty image reference, network name or pool name makes
\* PreCreateCheck return the "is required" error without any query for that
\* field or for the fields resolved after it; PreCreateCheck has by then
\* connected (unless the handle was cached), looked up the project and the
\* profile, and resolved the fields that come before it.
C7_RequiredBeforeOwnQuery ==
    Returned("PreCreateCheck") =>
        LET names == CallNames(calls)
            imageCalls == {"GetImageAlias", "ConnectSimpleStreams", "imgSrv.GetImageAlias"}
            profiled == \E i \in CallsTo(calls, "GetProfile") : calls[i].ok
        IN  /\ err = "image is required" <=> (Image = "" /\ profiled)
            /\ err = "image is required" =>
                   names \cap (imageCalls \cup {"GetNetwork", "GetStoragePool"}) = {}
            /\ err = "network is required" =>
                   /\ Network = "" /\ profiled /\ "GetImageAlias" \in names
                   /\ names \cap {"GetNetwork", "GetStoragePool"} = {}
            /\ err = "storage is required" =>
                   /\ Storage = "" /\ profiled
                   /\ {"GetImageAlias", "GetNetwork"} \subseteq names
                   /\ "GetStoragePool" \notin names
            /\ err \in {"image is required", "network is required",
                        "storage is required"} =>
                   /\ \A i \in DOMAIN calls :
                          calls[i].ok \/ calls[i].call = "GetImageAlias"
                   /\ calls[Len(calls)].call # "ConnectIncus"

\* the network name is empty: the server was asked for the project, the
\* profile and the image first
C7_Witness ==
    /\ Returned("PreCreateCheck") /\ err = "network is required"
    /\ CallNames(calls) = {"ConnectIncus", "GetProject", "GetProfile", "GetImageAlias"}

\* C8: a creation request is submitted only with the image source, the
\* root-disk descriptor and the NIC descriptor set, whatever sequence of
\* PreCreateCheck and Create calls came before.
C8_RequestCarriesDescriptors ==
    request # Nil =>
        /\ Val(request).Devices.root # Nil
        /\ Val(request).Devices.eth0 # Nil
        /\ Val(request).Source.Alias # ""

\* C9: an alias the project's catalog has gives the local source and the
\* image server is not contacted; the remote source, with the fixed server
\* and protocol "simplestreams", is given only after the local lookup failed
\* and the image server had the alias; with the alias in neither catalog
\* the resolution fails and leaves no descriptor.
C9_LocalImagePreferred ==
    Returned("PreCreateCheck") /\ CallsTo(calls, "GetProfile") # {}
    /\ calls[Len(calls)].call # "GetProfile" =>
        LET names == CallNames(calls)
            local == CallsTo(calls, "GetImageAlias")
            remote == CallsTo(calls, "imgSrv.GetImageAlias")
            found(S) == \E i \in S : calls[i].ok
        IN  /\ Cardinality(local) = 1 /\ Cardinality(remote) <= 1
            /\ found(local) =>
                   /\ imgConfig = <<[Type |-> "image", Alias |-> Image,
                                     Server |-> "", Protocol |-> ""]>>
                   /\ names \cap {"ConnectSimpleStreams", "imgSrv.GetImageAlias"} = {}
            /\ ~found(local) /\ found(remote) =>
                   imgConfig = <<[Type |-> "image", Alias |-> Image,
                                  Server |-> "https://images.linuxcontainers.org",
                                  Protocol |-> "simplestreams"]>>
            /\ imgConfig # Nil /\ Val(imgConfig).Server # "" =>
                   /\ ~found(local) /\ found(remote)
                   /\ \A i \in local : \A j \in remote : i < j
            /\ ~found(local) /\ ~found(remote) =>
                   /\ imgConfig = Nil
                   /\ err \in {"image " \o Image \o " not found in image server",
                               "failed to connect to image server: remote error"}

\* the alias was found on the image server only
C9_Witness ==
    /\ Returned("PreCreateCheck") /\ err = ""
    /\ imgConfig = <<[Type |-> "image", Alias |-> "debian/12",
                      Server |-> "https://images.linuxcontainers.org",
                      Protocol |-> "simplestreams"]>>
    /\ CallsTo(calls, "imgSrv.GetImageAlias") # {}

\* C10: when the create request or the wait on its operation fails, Create
\* returns that error; it has submitted one creation request, makes no
\* state query, records no address and issues no delete or state change.
C10_CreateFailureAborts ==
    [][pc = "idle" /\ op' = "Create" =>
          LET last == calls'[Len(calls')]
              names == CallNames(calls')
          IN  /\ Cardinality(CallsTo(calls', "CreateInstance")) <= 1
              /\ calls' # <<>> /\ last.call \in {"CreateInstance", "Wait"} /\ ~last.ok =>
                     /\ pc' = "returned"
                     /\ err' = "remote error"
                     /\ Cardinality(CallsTo(calls', "CreateInstance")) = 1
                     /\ nQueries' = 0 /\ nSleeps' = 0
                     /\ IPAddress' = IPAddress
                     /\ names \cap {"GetInstanceState", "DeleteInstance",
                                    "UpdateInstanceState"} = {}]_vars

\* the wait on the create operation has failed
C10_Witness ==
    /\ Returned("Create") /\ err = "remote error"
    /\ Len(calls) >= 2
    /\ calls[Len(calls)].call = "Wait" /\ ~calls[Len(calls)].ok
    /\ calls[Len(calls) - 1].call = "CreateInstance"

(* ----------------------- the other operations -------------------------- *)
\* C11: Start, Stop, Kill and Restart each issue one state-change request
\* against the instance name as soon as they hold the client, and none
\* when the connect or the project lookup failed: action start; stop with
\* force false; stop with force true; restart.  They wait on the operation
\* only when the request was accepted, never submit or wait twice, and
\* return an error exactly when the connect, the request or the wait failed.
C11_OneStateChangeRequest ==
    pc = "returned" /\ op \in {"Start", "Stop", "Kill", "Restart"} =>
        LET puts == CallsTo(calls, "UpdateInstanceState")
            waits == CallsTo(calls, "Wait")
            connects == CallsTo(calls, "ConnectIncus") \cup CallsTo(calls, "GetProject")
            action == CASE op = "Start" -> "start" [] op = "Stop" -> "stop"
                        [] op = "Kill" -> "stop" [] op = "Restart" -> "restart"
        IN  /\ Cardinality(puts) <= 1 /\ Cardinality(waits) <= 1
            /\ puts \cup waits \cup connects = DOMAIN calls
            /\ puts # {} <=> \A i \in connects : calls[i].ok
            /\ puts # {} <=> incus # Nil
            /\ \A i \in puts :
                   /\ calls[i].arg = "machine"
                   /\ calls[i].action = action
                   /\ calls[i].force <=> op = "Kill"
                   /\ \A j \in connects : j < i
            /\ waits # {} <=> \E i \in puts : calls[i].ok
            /\ \A i \in waits : i = Len(calls) /\ i - 1 \in puts
            /\ err # "" <=> \E i \in DOMAIN calls : ~calls[i].ok

\* Kill's request was accepted and the wait on it failed
C11_Witness ==
    /\ Returned("Kill") /\ err = "remote error" /\ Len(calls) = 4
    /\ calls[3].call = "UpdateInstanceState" /\ calls[3].force /\ calls[3].ok
    /\ calls[4].call = "Wait" /\ ~calls[4].ok

\* C15: GetState maps every server status onto the canonical set with no
\* error: Starting to Starting, Running to Running, Stopping to Starting,
\* Stopped to Stopped, Frozen to Paused and every other status to None;
\* when the connect or the state query fails it returns the Error state
\* with the error.
C15_StateMapping ==
    Returned("GetState") =>
        LET queries == CallsTo(calls, "GetInstanceState")
            answered == {i \in queries : calls[i].ok}
            canonical(status) ==
                IF status \in {"Starting", "Stopping"} THEN "Starting"
                ELSE IF status = "Running" THEN "Running"
                ELSE IF status = "Stopped" THEN "Stopped"
                ELSE IF status = "Frozen" THEN "Paused"
                ELSE "None"
        IN  /\ Cardinality(queries) <= 1
            /\ \A i \in queries : calls[i].arg = "machine" /\ i = Len(calls)
            /\ \A i \in answered :
                   /\ err = ""
                   /\ calls[i].reply \in StatusCodes
                   /\ out = canonical(calls[i].reply)
            /\ answered = {} => out = "Error" /\ err # ""
            /\ answered = {} => calls # <<>> /\ ~calls[Len(calls)].ok
            /\ out \in {"Starting", "Running", "Stopped", "Paused", "None", "Error"}

\* a stopping instance is reported as starting
C15_Witness ==
    /\ Returned("GetState") /\ err = "" /\ out = "Starting"
    /\ calls[Len(calls)].call = "GetInstanceState"
    /\ calls[Len(calls)].reply = "Stopping"

\* C16: Upgrade fails with the unsupported-operation error in every state
\* of the driver, makes no remote call and changes no field of the driver.
C16_UpgradeUnsupported ==
    [][pc = "idle" /\ op' = "Upgrade" =>
          /\ pc' = "returned"
          /\ err' = "upgrade is not supported for incus driver at this moment"
          /\ calls' = <<>>
          /\ UNCHANGED <<CPU, Memory, DiskSize, Project, Profile, Network,
                         Storage, Image, CloudInitUserData, SSHPort, SSHUser,
                         incus, sshPublicKey, imgConfig, netConfig, diskConfig,
                         rsrcConfig, isOVN, IPAddress>>]_vars

\* Upgrade refused on a driver that holds the handle, the descriptors and
\* the address of its instance
C16_Witness ==
    /\ Returned("Upgrade") /\ err = UpgradeErr
    /\ incus # Nil /\ rsrcConfig # Nil /\ IPAddress # ""

\* C17: GetSSHPort returns 22 when the configured port is 0 and the
\* configured port otherwise; GetSSHUsername returns "root" when the
\* configured user is empty and the configured user otherwise; neither
\* touches the other setting, and the call that follows returns the same
\* result.
C17_SSHDefaultsOnlyWhenUnset ==
    [][/\ pc = "idle" /\ op' = "GetSSHPort" =>
              /\ out' = (IF SSHPort = 0 THEN 22 ELSE SSHPort)
              /\ err' = ""
              /\ (IF SSHPort' = 0 THEN 22 ELSE SSHPort') = out'
              /\ SSHUser' = SSHUser
       /\ pc = "idle" /\ op' = "GetSSHUsername" =>
              /\ out' = (IF SSHUser = "" THEN "root" ELSE SSHUser)
              /\ (IF SSHUser' = "" THEN "root" ELSE SSHUser') = out'
              /\ SSHPort' = SSHPort]_vars

\* the configured port 2222 returned as it is
C17_Witness ==
    /\ Returned("GetSSHPort") /\ out = 2222 /\ SSHPort = 2222
    /\ SSHUser = "root" /\ CPU = 1

(* ------------------------ network resolution --------------------------- *)
\* C12: for every network whose type is neither bridge nor "ovn", network
\* resolution fails with the error naming the unsupported type, returns no
\* NIC descriptor, makes no further query and leaves the overlay flag as
\* it was.
C12_UnsupportedTypeRejected ==
    [][pc = "idle" /\ op' = "PreCreateCheck" =>
          \A i \in CallsTo(calls', "GetNetwork") :
              calls'[i].ok /\ calls'[i].reply \notin {"bridge", "ovn"} =>
                  /\ err' = "network type " \o calls'[i].reply \o " not supported"
                  /\ netConfig' = Nil
                  /\ isOVN' = isOVN
                  /\ i = Len(calls')]_vars

\* a macvlan network is refused on a driver whose overlay flag is set
C12_Witness ==
    /\ Returned("PreCreateCheck") /\ err = "network type macvlan not supported"
    /\ netConfig = Nil /\ isOVN /\ Network = "uplink"

\* C13: for a network of type "ovn", network resolution sets the overlay
\* flag and returns the NIC descriptor with the interface name "eth0" and
\* the network field naming the network, whatever its name; and the
\* creation request carries the MTU-1442 cloud-init network-config exactly
\* when the overlay flag is set.
C13_OverlayNIC ==
    [][/\ pc = "idle" /\ op' = "PreCreateCheck" =>
              \A i \in CallsTo(calls', "GetNetwork") :
                  calls'[i].ok /\ calls'[i].reply = "ovn" =>
                      /\ isOVN'
                      /\ calls'[i].arg = Network
                      /\ netConfig' = <<[name |-> "eth0", type |-> "nic",
                                         network |-> Network]>>
       /\ pc = "idle" /\ op' = "Create" /\ request' # Nil =>
              LET config == Val(request').Config
              IN  /\ "cloud-init.network-config" \in DOMAIN config <=> isOVN
                  /\ isOVN => config["cloud-init.network-config"]
                                  = cloudInitNetworkConfigOVN]_vars

\* the request for an instance on the overlay network "uplink"
C13_Witness ==
    /\ Returned("Create") /\ request # Nil /\ isOVN
    /\ Val(request).Devices.eth0
           = <<[name |-> "eth0", type |-> "nic", network |-> "uplink"]>>
    /\ "cloud-init.network-config" \in DOMAIN Val(request).Config

\* C14: for a network of type bridge named N, network resolution returns
\* the bridged-NIC descriptor whose name and parent are both N.
C14_BridgedNIC ==
    [][pc = "idle" /\ op' = "PreCreateCheck" =>
          \A i \in CallsTo(calls', "GetNetwork") :
              calls'[i].ok /\ calls'[i].reply = "bridge" =>
                  /\ calls'[i].arg = Network
                  /\ netConfig' = <<[name |-> Network, type |-> "nic",
                                     nictype |-> "bridged", parent |-> Network]>>]_vars

\* the bridge "uplink"
C14_Witness ==
    /\ Returned("PreCreateCheck") /\ err = ""
    /\ netConfig = <<[name |-> "uplink", type |-> "nic", nictype |-> "bridged",
                      parent |-> "uplink"]>>

\* C19: after every successful PreCreateCheck the overlay flag is true
\* exactly when the NIC descriptor held is the overlay one.
C19_FlagMatchesNIC ==
    Returned("PreCreateCheck") /\ err = "" =>
        (isOVN <=> "network" \in DOMAIN Val(netConfig))

====
